---- MODULE Spec2Model ----
(***************************************************************************)
(* Model of src/inventory.py: a process-wide stock ledger (stock_data)     *)
(* mutated by add_item / remove_item, queried by get_qty / check_low_items *)
(* and persisted by save_data / load_data through a temp file and a rename.*)
(***************************************************************************)
EXTENDS Integers, Sequences, FiniteSets, TLC

VARIABLES
    stock_data,   \* the module-level dict, as the sequence of its entries in insertion order
    logs,         \* the caller-owned list handed to add_item as logs=
    target,       \* the file at the path given to save_data / load_data
    tmp,          \* the file at that path plus ".tmp"
    pc,           \* position of the single thread: "idle" or inside save_data
    wbuf,         \* text json.dump has still to write in the running save_data
    last,         \* the most recent call: its arguments and what the caller got back
    pre,          \* stock_data, the log list and the two files as they were when that call began
    saved         \* the dict whose text the last completed save_data renamed over the target

vars == <<stock_data, logs, target, tmp, pc, wbuf, last, pre, saved>>

----------------------------------------------------------------------------
(* Bounds of the exploration *)

QtyStep == 5       \* quantities are handed in as multiples of this
MaxUnits == 2      \* most steps a stored quantity may hold
MaxQty == MaxUnits * QtyStep   \* largest quantity an add may build up
MaxLogs == 1       \* longest caller log list

----------------------------------------------------------------------------
(* Python values that reach the functions as arguments or out of json.load *)

PyStr(s) == [ty |-> "str", s |-> s, n |-> 0, items |-> <<>>]
PyInt(n) == [ty |-> "int", s |-> "", n |-> n, items |-> <<>>]
PyList == [ty |-> "list", s |-> "", n |-> 0, items |-> <<>>]
PyDict(items) == [ty |-> "dict", s |-> "", n |-> 0, items |-> items]
PyNone == [ty |-> "none", s |-> "", n |-> 0, items |-> <<>>]

\* strings made of whitespace only, for which str.strip() returns ""
WhitespaceOnly == {"", " "}

strip(s) == IF s \in WhitespaceOnly THEN "" ELSE s

\* item arguments: two item names, the empty string, a blank string, a non-string
ItemArgs == {PyStr("a"), PyStr("b"), PyStr(""), PyStr(" "), PyInt(123)}

\* qty arguments: integers from -1 up, and a non-integer
QtyArgs == {PyInt(n * QtyStep) : n \in -1..MaxUnits} \cup {PyStr("ten")}

\* threshold arguments of check_low_items
ThresholdArgs ==
    {PyInt(n * QtyStep) : n \in -1..MaxUnits}
        \cup {PyInt(1), PyInt(MaxQty + 1), PyStr("ten")}

----------------------------------------------------------------------------
(* dict operations on the insertion-ordered entry sequence *)

Entry(k, v) == [k |-> k, v |-> v]

DictKeys(d) == {d[i].k : i \in DOMAIN d}

\* item in stock_data
DictHas(d, k) == k \in DictKeys(d)

\* stock_data.get(item, default)
DictGet(d, k, default) ==
    IF DictHas(d, k) THEN d[CHOOSE i \in DOMAIN d : d[i].k = k].v ELSE default

\* stock_data[item] = v : an existing key keeps its position, a new key goes last
DictSet(d, k, v) ==
    IF DictHas(d, k)
    THEN [i \in DOMAIN d |-> IF d[i].k = k THEN Entry(k, v) ELSE d[i]]
    ELSE Append(d, Entry(k, v))

\* del stock_data[item]
DictDel(d, k) == SelectSeq(d, LAMBDA e : e.k # k)

\* stock_data.update(data) on the pairs of data in their order
RECURSIVE DictUpdate(_, _)
DictUpdate(d, pairs) ==
    IF pairs = <<>> THEN d
    ELSE DictUpdate(DictSet(d, Head(pairs).k, Head(pairs).v), Tail(pairs))

----------------------------------------------------------------------------
(* What a call hands back to its caller *)

Call(op, item, qty, outcome, log, ret, names) ==
    [op |-> op, item |-> item, qty |-> qty, outcome |-> outcome,
     log |-> log, ret |-> ret, names |-> names]

NoFile == [exists |-> FALSE, data |-> <<>>]
File(data) == [exists |-> TRUE, data |-> data]

Snapshot == [stock |-> stock_data, target |-> target, tmp |-> tmp, logs |-> logs]

----------------------------------------------------------------------------
(* Ledger operations *)

\* the exception _validate_item_qty raises, or "return"
_validate_item_qty(item, qty) ==
    IF item.ty # "str" \/ strip(item.s) = "" THEN "ValueError"
    ELSE IF qty.ty # "int" THEN "TypeError"
    ELSE IF qty.n < 0 THEN "ValueError"
    ELSE "return"

\* add_item that stores nothing when qty is 0
add_item_skips_zero(item, qty, sink) ==
    /\ pc = "idle"
    /\ sink => Len(logs) < MaxLogs
    /\ LET v == _validate_item_qty(item, qty) IN
       IF v # "return"
       THEN /\ last' = Call("add", item, qty, v, "none", 0, <<>>)
            /\ UNCHANGED <<stock_data, logs>>
       ELSE /\ DictGet(stock_data, item.s, 0) + qty.n <= MaxQty
            /\ stock_data' = IF qty.n = 0 THEN stock_data
                             ELSE DictSet(stock_data, item.s,
                                          DictGet(stock_data, item.s, 0) + qty.n)
            /\ logs' = IF sink THEN Append(logs, [qty |-> qty.n, item |-> item.s])
                       ELSE logs
            /\ last' = Call("add", item, qty, "return", "none", 0, <<>>)
    /\ pre' = Snapshot
    /\ UNCHANGED <<target, tmp, pc, wbuf, saved>>

\* add_item that appends its line before it validates
add_item_logs_first(item, qty, sink) ==
    /\ pc = "idle"
    /\ sink => Len(logs) < MaxLogs
    /\ LET v == _validate_item_qty(item, qty) IN
       IF v # "return"
       THEN /\ last' = Call("add", item, qty, v, "none", 0, <<>>)
            /\ logs' = IF sink THEN Append(logs, [qty |-> qty.n, item |-> item.s])
                       ELSE logs
            /\ UNCHANGED stock_data
       ELSE /\ DictGet(stock_data, item.s, 0) + qty.n <= MaxQty
            /\ stock_data' = DictSet(stock_data, item.s,
                                     DictGet(stock_data, item.s, 0) + qty.n)
            /\ logs' = IF sink THEN Append(logs, [qty |-> qty.n, item |-> item.s])
                       ELSE logs
            /\ last' = Call("add", item, qty, "return", "none", 0, <<>>)
    /\ pre' = Snapshot
    /\ UNCHANGED <<target, tmp, pc, wbuf, saved>>

\* add_item that appends no line when qty is 0
add_item_no_log_for_zero(item, qty, sink) ==
    /\ pc = "idle"
    /\ sink => Len(logs) < MaxLogs
    /\ LET v == _validate_item_qty(item, qty) IN
       IF v # "return"
       THEN /\ last' = Call("add", item, qty, v, "none", 0, <<>>)
            /\ UNCHANGED <<stock_data, logs>>
       ELSE /\ DictGet(stock_data, item.s, 0) + qty.n <= MaxQty
            /\ stock_data' = DictSet(stock_data, item.s,
                                     DictGet(stock_data, item.s, 0) + qty.n)
            /\ logs' = IF sink /\ qty.n # 0
                       THEN Append(logs, [qty |-> qty.n, item |-> item.s])
                       ELSE logs
            /\ last' = Call("add", item, qty, "return", "none", 0, <<>>)
    /\ pre' = Snapshot
    /\ UNCHANGED <<target, tmp, pc, wbuf, saved>>

\* add_item that opens the target file for writing after a successful add
add_item_autosave(item, qty, sink) ==
    /\ pc = "idle"
    /\ sink => Len(logs) < MaxLogs
    /\ LET v == _validate_item_qty(item, qty) IN
       IF v # "return"
       THEN /\ last' = Call("add", item, qty, v, "none", 0, <<>>)
            /\ UNCHANGED <<stock_data, logs>>
       ELSE /\ DictGet(stock_data, item.s, 0) + qty.n <= MaxQty
            /\ stock_data' = DictSet(stock_data, item.s,
                                     DictGet(stock_data, item.s, 0) + qty.n)
            /\ logs' = IF sink THEN Append(logs, [qty |-> qty.n, item |-> item.s])
                       ELSE logs
            /\ last' = Call("add", item, qty, "return", "none", 0, <<>>)
    /\ pre' = Snapshot
    /\ target' = IF _validate_item_qty(item, qty) = "return"
                  THEN [exists |-> TRUE, data |-> <<>>]
                  ELSE target
    /\ UNCHANGED <<tmp, pc, wbuf, saved>>

\* add_item(item, qty, logs): sink says whether the caller passed its list
add_item(item, qty, sink) ==
    /\ pc = "idle"
    /\ sink => Len(logs) < MaxLogs
    /\ LET v == _validate_item_qty(item, qty) IN
       IF v # "return"
       THEN /\ last' = Call("add", item, qty, v, "none", 0, <<>>)
            /\ UNCHANGED <<stock_data, logs>>
       ELSE /\ DictGet(stock_data, item.s, 0) + qty.n <= MaxQty
            /\ stock_data' = DictSet(stock_data, item.s,
                                     DictGet(stock_data, item.s, 0) + qty.n)
            /\ logs' = IF sink THEN Append(logs, [qty |-> qty.n, item |-> item.s])
                       ELSE logs
            /\ last' = Call("add", item, qty, "return", "none", 0, <<>>)
    /\ pre' = Snapshot
    /\ UNCHANGED <<target, tmp, pc, wbuf, saved>>

\* remove_item that stores the remainder whatever its sign
remove_item_never_deletes(item, qty) ==
    /\ pc = "idle"
    /\ IF item.ty # "str" \/ strip(item.s) = ""
       THEN /\ last' = Call("remove", item, qty, "ValueError", "none", 0, <<>>)
            /\ UNCHANGED stock_data
       ELSE IF qty.ty # "int" \/ qty.n <= 0
       THEN /\ last' = Call("remove", item, qty, "ValueError", "none", 0, <<>>)
            /\ UNCHANGED stock_data
       ELSE IF ~DictHas(stock_data, item.s)
       THEN /\ last' = Call("remove", item, qty, "return", "warning", 0, <<>>)
            /\ UNCHANGED stock_data
       ELSE LET new_qty == DictGet(stock_data, item.s, 0) - qty.n IN
            /\ stock_data' = DictSet(stock_data, item.s, new_qty)
            /\ last' = Call("remove", item, qty, "return", "none", 0, <<>>)
    /\ pre' = Snapshot
    /\ UNCHANGED <<logs, target, tmp, pc, wbuf, saved>>

\* remove_item that deletes only below zero (new_qty >= 0 keeps the key)
remove_item_keeps_zero(item, qty) ==
    /\ pc = "idle"
    /\ IF item.ty # "str" \/ strip(item.s) = ""
       THEN /\ last' = Call("remove", item, qty, "ValueError", "none", 0, <<>>)
            /\ UNCHANGED stock_data
       ELSE IF qty.ty # "int" \/ qty.n <= 0
       THEN /\ last' = Call("remove", item, qty, "ValueError", "none", 0, <<>>)
            /\ UNCHANGED stock_data
       ELSE IF ~DictHas(stock_data, item.s)
       THEN /\ last' = Call("remove", item, qty, "return", "warning", 0, <<>>)
            /\ UNCHANGED stock_data
       ELSE LET new_qty == DictGet(stock_data, item.s, 0) - qty.n IN
            /\ stock_data' = IF new_qty >= 0
                             THEN DictSet(stock_data, item.s, new_qty)
                             ELSE DictDel(stock_data, item.s)
            /\ last' = Call("remove", item, qty, "return", "none", 0, <<>>)
    /\ pre' = Snapshot
    /\ UNCHANGED <<logs, target, tmp, pc, wbuf, saved>>

\* remove_item without the missing-key test: stock_data[item] raises KeyError
remove_item_missing_raises(item, qty) ==
    /\ pc = "idle"
    /\ IF item.ty # "str" \/ strip(item.s) = ""
       THEN /\ last' = Call("remove", item, qty, "ValueError", "none", 0, <<>>)
            /\ UNCHANGED stock_data
       ELSE IF qty.ty # "int" \/ qty.n <= 0
       THEN /\ last' = Call("remove", item, qty, "ValueError", "none", 0, <<>>)
            /\ UNCHANGED stock_data
       ELSE IF ~DictHas(stock_data, item.s)
       THEN /\ last' = Call("remove", item, qty, "KeyError", "none", 0, <<>>)
            /\ UNCHANGED stock_data
       ELSE LET new_qty == DictGet(stock_data, item.s, 0) - qty.n IN
            /\ stock_data' = IF new_qty > 0
                             THEN DictSet(stock_data, item.s, new_qty)
                             ELSE DictDel(stock_data, item.s)
            /\ last' = Call("remove", item, qty, "return", "none", 0, <<>>)
    /\ pre' = Snapshot
    /\ UNCHANGED <<logs, target, tmp, pc, wbuf, saved>>

remove_item(item, qty) ==
    /\ pc = "idle"
    /\ IF item.ty # "str" \/ strip(item.s) = ""
       THEN /\ last' = Call("remove", item, qty, "ValueError", "none", 0, <<>>)
            /\ UNCHANGED stock_data
       ELSE IF qty.ty # "int" \/ qty.n <= 0
       THEN /\ last' = Call("remove", item, qty, "ValueError", "none", 0, <<>>)
            /\ UNCHANGED stock_data
       ELSE IF ~DictHas(stock_data, item.s)
       THEN /\ last' = Call("remove", item, qty, "return", "warning", 0, <<>>)
            /\ UNCHANGED stock_data
       ELSE LET new_qty == DictGet(stock_data, item.s, 0) - qty.n IN
            /\ stock_data' = IF new_qty > 0
                             THEN DictSet(stock_data, item.s, new_qty)
                             ELSE DictDel(stock_data, item.s)
            /\ last' = Call("remove", item, qty, "return", "none", 0, <<>>)
    /\ pre' = Snapshot
    /\ UNCHANGED <<logs, target, tmp, pc, wbuf, saved>>

\* the value get_qty(item) returns for a valid item name
get_qty_value(item) == DictGet(stock_data, item, 0)

get_qty(item) ==
    /\ pc = "idle"
    /\ IF item.ty # "str" \/ strip(item.s) = ""
       THEN last' = Call("get", item, PyNone, "ValueError", "none", 0, <<>>)
       ELSE last' = Call("get", item, PyNone, "return", "none",
                         get_qty_value(item.s), <<>>)
    /\ pre' = Snapshot
    /\ UNCHANGED <<stock_data, logs, target, tmp, pc, wbuf, saved>>

\* check_low_items that compares with <= instead of <
low_items_le(d, threshold) ==
    LET sel == SelectSeq(d, LAMBDA e : e.v <= threshold) IN
    [i \in DOMAIN sel |-> sel[i].k]

\* check_low_items that passes over a quantity of 0 (if qty and qty < threshold)
low_items_skips_zero(d, threshold) ==
    LET sel == SelectSeq(d, LAMBDA e : e.v # 0 /\ e.v < threshold) IN
    [i \in DOMAIN sel |-> sel[i].k]

\* the list check_low_items(threshold) builds for a valid threshold
low_items(d, threshold) ==
    LET sel == SelectSeq(d, LAMBDA e : e.v < threshold) IN
    [i \in DOMAIN sel |-> sel[i].k]

check_low_items(threshold) ==
    /\ pc = "idle"
    /\ IF threshold.ty # "int" \/ threshold.n < 0
       THEN last' = Call("low", PyNone, threshold, "ValueError", "none", 0, <<>>)
       ELSE last' = Call("low", PyNone, threshold, "return", "none", 0,
                         low_items(stock_data, threshold.n))
    /\ pre' = Snapshot
    /\ UNCHANGED <<stock_data, logs, target, tmp, pc, wbuf, saved>>

----------------------------------------------------------------------------
(* JSON text, as the sequence of its lexical pieces *)

Tok(k, s, n) == [k |-> k, s |-> s, n |-> n]
P(c) == Tok("punct", c, 0)       \* one of { } [ ] : , -
S(s) == Tok("string", s, 0)      \* a quoted string literal
D(n) == Tok("digit", "", n)      \* one decimal digit
EOF == Tok("eof", "", 0)

At(t, i) == IF i \in DOMAIN t THEN t[i] ELSE EOF

\* decimal digits of a non-negative integer
RECURSIVE Digits(_)
Digits(n) == IF n < 10 THEN <<D(n)>> ELSE Digits(n \div 10) \o <<D(n % 10)>>

IntText(n) == IF n < 0 THEN <<P("-")>> \o Digits(-n) ELSE Digits(n)

RECURSIVE Members(_)
Members(d) ==
    IF d = <<>> THEN <<>>
    ELSE <<S(d[1].k), P(":")>> \o IntText(d[1].v)
         \o (IF Len(d) > 1 THEN <<P(",")>> \o Members(Tail(d)) ELSE <<>>)

\* the text written with the two separators swapped, separators=(":", ",")
RECURSIVE MembersSwapped(_)
MembersSwapped(d) ==
    IF d = <<>> THEN <<>>
    ELSE <<S(d[1].k), P(",")>> \o IntText(d[1].v)
         \o (IF Len(d) > 1 THEN <<P(":")>> \o MembersSwapped(Tail(d)) ELSE <<>>)

json_dump_swapped(d) == <<P("{")>> \o MembersSwapped(d) \o <<P("}")>>

\* json.dump(stock_data, f, separators=(",", ":")): the text written
json_dump(d) == <<P("{")>> \o Members(d) \o <<P("}")>>

\* json.load: a recursive-descent parse; a result is [ok, val, next]
Fail == [ok |-> FALSE, val |-> PyNone, next |-> 0]
Done(val, next) == [ok |-> TRUE, val |-> val, next |-> next]

\* index just past the run of digits that starts at i
RECURSIVE DigitsEnd(_, _)
DigitsEnd(t, i) == IF At(t, i).k = "digit" THEN DigitsEnd(t, i + 1) ELSE i

\* value of the digits t[i..j-1]
RECURSIVE DigitsValue(_, _, _, _)
DigitsValue(t, i, j, acc) ==
    IF i >= j THEN acc ELSE DigitsValue(t, i + 1, j, acc * 10 + t[i].n)

\* -? (0 | [1-9][0-9]*)
ParseNumber(t, i) ==
    LET neg == At(t, i) = P("-")
        j == IF neg THEN i + 1 ELSE i
        e == IF At(t, j) = D(0) THEN j + 1 ELSE DigitsEnd(t, j)
        n == DigitsValue(t, j, e, 0)
    IN IF e = j THEN Fail ELSE Done(PyInt(IF neg THEN 0 - n ELSE n), e)

RECURSIVE ParseValue(_, _), ParseElems(_, _), ParseMembers(_, _, _)

ParseValue(t, i) ==
    LET c == At(t, i) IN
    IF c.k = "string" THEN Done(PyStr(c.s), i + 1)
    ELSE IF c.k = "digit" \/ c = P("-") THEN ParseNumber(t, i)
    ELSE IF c = P("[")
    THEN IF At(t, i + 1) = P("]") THEN Done(PyList, i + 2) ELSE ParseElems(t, i + 1)
    ELSE IF c = P("{")
    THEN IF At(t, i + 1) = P("}") THEN Done(PyDict(<<>>), i + 2)
         ELSE ParseMembers(t, i + 1, <<>>)
    ELSE Fail

\* value (, value)* ]
ParseElems(t, i) ==
    LET r == ParseValue(t, i) IN
    IF ~r.ok THEN Fail
    ELSE IF At(t, r.next) = P("]") THEN Done(PyList, r.next + 1)
    ELSE IF At(t, r.next) = P(",") THEN ParseElems(t, r.next + 1)
    ELSE Fail

\* string : value (, string : value)* }   a repeated key keeps its last value
ParseMembers(t, i, acc) ==
    IF At(t, i).k # "string" \/ At(t, i + 1) # P(":") THEN Fail
    ELSE LET r == ParseValue(t, i + 2) IN
         IF ~r.ok THEN Fail
         ELSE LET acc2 == DictSet(acc, At(t, i).s, r.val) IN
              IF At(t, r.next) = P("}") THEN Done(PyDict(acc2), r.next + 1)
              ELSE IF At(t, r.next) = P(",") THEN ParseMembers(t, r.next + 1, acc2)
              ELSE Fail

\* json.load(f): ok is FALSE where it raises JSONDecodeError
json_load(t) ==
    LET r == ParseValue(t, 1) IN
    IF r.ok /\ r.next = Len(t) + 1 THEN r ELSE Fail

\* the schema test of load_data on the parsed data
schema_ok(data) ==
    /\ data.ty = "dict"
    /\ \A i \in DOMAIN data.items : data.items[i].v.ty = "int"

\* the parsed dict with its values as plain integers
IntItems(data) == [i \in DOMAIN data.items |-> Entry(data.items[i].k, data.items[i].v.n)]

----------------------------------------------------------------------------
(* Persistence operations *)

\* documents another program may have left at the target path
ExternalDocs == {
    <<P("{"), S("a"), P(":"), D(5), P("}")>>,              \* {"a":5}
    <<P("{"), S("b"), P(":"), D(5), P(","),
      S("a"), P(":"), D(1), D(0), P("}")>>,                \* {"b":5,"a":10}
    <<P("{"), S("x"), P(":"), S("ten"), P("}")>>,          \* {"x":"ten"}
    <<P("["), D(1), P("]")>>,                              \* [1]
    <<P("{"), S("a"), P(":")>>,                            \* {"a":   (cut short)
    <<P("{"), S(" "), P(":"), P("-"), D(1), P("}")>> }     \* {" ":-1}

\* load_data whose except clause leaves stock_data as it was
load_data_keeps_on_error(ioerr) ==
    /\ pc = "idle"
    /\ IF ~target.exists
       THEN /\ last' = Call("load", PyNone, PyNone, "return", "info", 0, <<>>)
            /\ UNCHANGED stock_data
       ELSE IF ioerr
       THEN /\ last' = Call("load", PyNone, PyNone, "OSError", "none", 0, <<>>)
            /\ UNCHANGED stock_data
       ELSE LET r == json_load(target.data) IN
            IF ~r.ok \/ ~schema_ok(r.val)
            THEN /\ UNCHANGED stock_data
                 /\ last' = Call("load", PyNone, PyNone, "return", "error", 0, <<>>)
            ELSE /\ stock_data' = DictUpdate(<<>>, IntItems(r.val))
                 /\ last' = Call("load", PyNone, PyNone, "return", "none", 0, <<>>)
    /\ pre' = Snapshot
    /\ UNCHANGED <<logs, target, tmp, pc, wbuf, saved>>

\* load_data that starts empty when the file is missing
load_data_missing_clears(ioerr) ==
    /\ pc = "idle"
    /\ IF ~target.exists
       THEN /\ last' = Call("load", PyNone, PyNone, "return", "info", 0, <<>>)
            /\ stock_data' = <<>>
       ELSE IF ioerr
       THEN /\ last' = Call("load", PyNone, PyNone, "OSError", "none", 0, <<>>)
            /\ UNCHANGED stock_data
       ELSE LET r == json_load(target.data) IN
            IF ~r.ok \/ ~schema_ok(r.val)
            THEN /\ stock_data' = <<>>
                 /\ last' = Call("load", PyNone, PyNone, "return", "error", 0, <<>>)
            ELSE /\ stock_data' = DictUpdate(<<>>, IntItems(r.val))
                 /\ last' = Call("load", PyNone, PyNone, "return", "none", 0, <<>>)
    /\ pre' = Snapshot
    /\ UNCHANGED <<logs, target, tmp, pc, wbuf, saved>>

\* load_data that updates stock_data without clearing it first
load_data_no_clear(ioerr) ==
    /\ pc = "idle"
    /\ IF ~target.exists
       THEN /\ last' = Call("load", PyNone, PyNone, "return", "info", 0, <<>>)
            /\ UNCHANGED stock_data
       ELSE IF ioerr
       THEN /\ last' = Call("load", PyNone, PyNone, "OSError", "none", 0, <<>>)
            /\ UNCHANGED stock_data
       ELSE LET r == json_load(target.data) IN
            IF ~r.ok \/ ~schema_ok(r.val)
            THEN /\ stock_data' = <<>>
                 /\ last' = Call("load", PyNone, PyNone, "return", "error", 0, <<>>)
            ELSE /\ stock_data' = DictUpdate(stock_data, IntItems(r.val))
                 /\ last' = Call("load", PyNone, PyNone, "return", "none", 0, <<>>)
    /\ pre' = Snapshot
    /\ UNCHANGED <<logs, target, tmp, pc, wbuf, saved>>

\* load_data that clears stock_data before it opens the file
load_data_clears_first(ioerr) ==
    /\ pc = "idle"
    /\ IF ~target.exists
       THEN /\ last' = Call("load", PyNone, PyNone, "return", "info", 0, <<>>)
            /\ UNCHANGED stock_data
       ELSE IF ioerr
       THEN /\ last' = Call("load", PyNone, PyNone, "OSError", "none", 0, <<>>)
            /\ stock_data' = <<>>
       ELSE LET r == json_load(target.data) IN
            IF ~r.ok \/ ~schema_ok(r.val)
            THEN /\ stock_data' = <<>>
                 /\ last' = Call("load", PyNone, PyNone, "return", "error", 0, <<>>)
            ELSE /\ stock_data' = DictUpdate(<<>>, IntItems(r.val))
                 /\ last' = Call("load", PyNone, PyNone, "return", "none", 0, <<>>)
    /\ pre' = Snapshot
    /\ UNCHANGED <<logs, target, tmp, pc, wbuf, saved>>

\* load_data(file); ioerr: the open or the read raises OSError
load_data(ioerr) ==
    /\ pc = "idle"
    /\ IF ~target.exists
       THEN /\ last' = Call("load", PyNone, PyNone, "return", "info", 0, <<>>)
            /\ UNCHANGED stock_data
       ELSE IF ioerr
       THEN /\ last' = Call("load", PyNone, PyNone, "OSError", "none", 0, <<>>)
            /\ UNCHANGED stock_data
       ELSE LET r == json_load(target.data) IN
            IF ~r.ok \/ ~schema_ok(r.val)
            THEN /\ stock_data' = <<>>
                 /\ last' = Call("load", PyNone, PyNone, "return", "error", 0, <<>>)
            ELSE /\ stock_data' = DictUpdate(<<>>, IntItems(r.val))
                 /\ last' = Call("load", PyNone, PyNone, "return", "none", 0, <<>>)
    /\ pre' = Snapshot
    /\ UNCHANGED <<logs, target, tmp, pc, wbuf, saved>>

\* what save_data hands back once the except clause has logged an OSError
save_failed == Call("save", PyNone, PyNone, "return", "error", 0, <<>>)

\* save_data, step 1: tmp.open("w") creates or truncates the temp file
save_open(ioerr) ==
    /\ pc = "idle"
    /\ IF ioerr
       THEN /\ last' = save_failed
            /\ UNCHANGED <<tmp, pc, wbuf>>
       ELSE /\ tmp' = File(<<>>)
            /\ wbuf' = json_dump(stock_data)
            /\ pc' = "save_writing"
            /\ last' = Call("save", PyNone, PyNone, "running", "none", 0, <<>>)
    /\ pre' = Snapshot
    /\ UNCHANGED <<stock_data, logs, target, saved>>

\* save_data, step 2: json.dump writes the next k pieces, or a write raises OSError
\* and the with block closes the file on the way out
save_write(k, ioerr) ==
    /\ pc = "save_writing"
    /\ wbuf # <<>>
    /\ k \in 1..Len(wbuf)
    /\ IF ioerr
       THEN /\ pc' = "idle"
            /\ wbuf' = <<>>
            /\ last' = save_failed
            /\ UNCHANGED tmp
       ELSE /\ tmp' = File(tmp.data \o SubSeq(wbuf, 1, k))
            /\ wbuf' = SubSeq(wbuf, k + 1, Len(wbuf))
            /\ UNCHANGED <<pc, last>>
    /\ UNCHANGED <<stock_data, logs, target, pre, saved>>

\* save_data, step 3: leaving the with block flushes and closes the temp file
save_close(ioerr) ==
    /\ pc = "save_writing"
    /\ wbuf = <<>>
    /\ IF ioerr
       THEN /\ pc' = "idle"
            /\ last' = save_failed
       ELSE /\ pc' = "save_closed"
            /\ UNCHANGED last
    /\ UNCHANGED <<stock_data, logs, target, tmp, wbuf, pre, saved>>

\* the rename placed inside the with block: it may run before the text is all written
save_replace_before_close(ioerr) ==
    /\ pc \in {"save_writing", "save_closed"}
    /\ wbuf' = <<>>
    /\ pc' = "idle"
    /\ IF ioerr
       THEN /\ last' = save_failed
            /\ UNCHANGED <<target, tmp, saved>>
       ELSE /\ target' = tmp
            /\ tmp' = NoFile
            /\ saved' = [done |-> TRUE, stock |-> stock_data]
            /\ last' = Call("save", PyNone, PyNone, "return", "none", 0, <<>>)
    /\ UNCHANGED <<stock_data, logs, pre>>

\* a copy over the target instead of a rename: a failure leaves the target cut short
save_replace_copy(ioerr) ==
    /\ pc = "save_closed"
    /\ pc' = "idle"
    /\ IF ioerr
       THEN /\ last' = save_failed
            /\ target' = File(<<>>)
            /\ UNCHANGED <<tmp, saved>>
       ELSE /\ target' = tmp
            /\ tmp' = NoFile
            /\ saved' = [done |-> TRUE, stock |-> stock_data]
            /\ last' = Call("save", PyNone, PyNone, "return", "none", 0, <<>>)
    /\ UNCHANGED <<stock_data, logs, wbuf, pre>>

\* a copy of the temp file over the target that leaves the temp file behind
save_replace_leaves_tmp(ioerr) ==
    /\ pc = "save_closed"
    /\ pc' = "idle"
    /\ IF ioerr
       THEN /\ last' = save_failed
            /\ UNCHANGED <<target, tmp, saved>>
       ELSE /\ target' = tmp
            /\ UNCHANGED tmp
            /\ saved' = [done |-> TRUE, stock |-> stock_data]
            /\ last' = Call("save", PyNone, PyNone, "return", "none", 0, <<>>)
    /\ UNCHANGED <<stock_data, logs, wbuf, pre>>

\* save_data, step 4: tmp.replace(path) renames the temp file over the target
save_replace(ioerr) ==
    /\ pc = "save_closed"
    /\ pc' = "idle"
    /\ IF ioerr
       THEN /\ last' = save_failed
            /\ UNCHANGED <<target, tmp, saved>>
       ELSE /\ target' = tmp
            /\ tmp' = NoFile
            /\ saved' = [done |-> TRUE, stock |-> stock_data]
            /\ last' = Call("save", PyNone, PyNone, "return", "none", 0, <<>>)
    /\ UNCHANGED <<stock_data, logs, wbuf, pre>>

\* the process dies and a new one starts: memory is gone, the files stay;
\* last.outcome keeps the position at which it died
Crash ==
    /\ stock_data' = <<>>
    /\ logs' = <<>>
    /\ pc' = "idle"
    /\ wbuf' = <<>>
    /\ last' = Call("crash", PyNone, PyNone, pc, "none", 0, <<>>)
    /\ pre' = IF pc = "idle" THEN Snapshot ELSE pre
    /\ UNCHANGED <<target, tmp, saved>>

----------------------------------------------------------------------------
(* Specifications *)

NoCall == Call("none", PyNone, PyNone, "none", "none", 0, <<>>)

\* module import: stock_data = {}; the target path holds nothing or some document
Init ==
    /\ stock_data = <<>>
    /\ logs = <<>>
    /\ target \in {NoFile} \cup {File(d) : d \in ExternalDocs}
    /\ tmp = NoFile
    /\ pc = "idle"
    /\ wbuf = <<>>
    /\ last = NoCall
    /\ pre = [stock |-> <<>>, target |-> target, tmp |-> NoFile, logs |-> <<>>]
    /\ saved = [done |-> FALSE, stock |-> <<>>]

Add == \E item \in ItemArgs, qty \in QtyArgs, sink \in BOOLEAN : add_item(item, qty, sink)
Remove == \E item \in ItemArgs, qty \in QtyArgs : remove_item(item, qty)
GetQty == \E item \in ItemArgs : get_qty(item)
CheckLow == \E threshold \in ThresholdArgs : check_low_items(threshold)
Load == \E ioerr \in BOOLEAN : load_data(ioerr)
SaveOpen == \E ioerr \in BOOLEAN : save_open(ioerr)
SaveWrite == \E k \in 1..(Len(wbuf)), ioerr \in BOOLEAN : save_write(k, ioerr)
SaveClose == \E ioerr \in BOOLEAN : save_close(ioerr)
SaveReplace == \E ioerr \in BOOLEAN : save_replace(ioerr)

\* the ledger alone: every kind of argument, no file at the target path
InitLedger == Init /\ target = NoFile

NextLedger ==
    \/ Add
    \/ Remove
    \/ GetQty
    \/ CheckLow

SpecLedger == InitLedger /\ [][NextLedger]_vars

\* the ledger with its persistence: valid mutations of one item, loads, saves, crashes
StoreItemArgs == {PyStr("a")}
StoreQtyArgs == {q \in QtyArgs : q.ty = "int" /\ q.n >= 0}

StoreAdd == \E item \in StoreItemArgs, qty \in StoreQtyArgs : add_item(item, qty, FALSE)
StoreRemove == \E item \in StoreItemArgs, qty \in StoreQtyArgs : remove_item(item, qty)

Next ==
    \/ StoreAdd
    \/ StoreRemove
    \/ Load
    \/ SaveOpen
    \/ SaveWrite
    \/ SaveClose
    \/ SaveReplace
    \/ Crash

Spec == Init /\ [][Next]_vars

\* every operation on one ledger, the caller handing its list to every add_item
FullItemArgs == {PyStr("a"), PyStr("")}

FullAdd == \E item \in FullItemArgs, qty \in QtyArgs : add_item(item, qty, TRUE)
FullRemove == \E item \in FullItemArgs, qty \in QtyArgs : remove_item(item, qty)
FullGetQty == \E item \in FullItemArgs : get_qty(item)

NextFull ==
    \/ FullAdd
    \/ FullRemove
    \/ FullGetQty
    \/ CheckLow
    \/ Load
    \/ SaveOpen
    \/ SaveWrite
    \/ SaveClose
    \/ SaveReplace

\* the target path holds nothing or the document {"a":5}
InitFull == Init /\ target \in {NoFile, File(<<P("{"), S("a"), P(":"), D(5), P("}")>>)}

SpecFull == InitFull /\ [][NextFull]_vars

----------------------------------------------------------------------------
(* Properties of the ledger operations, checked under SpecLedger *)

\* the call that ran last was a remove_item with valid arguments
ValidRemove ==
    /\ last.op = "remove"
    /\ last.outcome = "return"

\* C1 as stated: in every state reached by add_item and remove_item calls every
\* stored quantity is strictly positive and every key is a non-blank string.
C1_StoredPositive ==
    \A i \in DOMAIN stock_data :
        /\ stock_data[i].v > 0
        /\ strip(stock_data[i].k) # ""

\* C1 amended: in every state reached by add_item and remove_item calls every
\* stored quantity is zero or more and every key is a non-blank string.
C1_StoredNonNegative ==
    \A i \in DOMAIN stock_data :
        /\ stock_data[i].v >= 0
        /\ strip(stock_data[i].k) # ""

\* a remove_item has just gone through and a zero quantity sits in the map
C1_Witness ==
    /\ ValidRemove
    /\ \E i \in DOMAIN stock_data : stock_data[i].v = 0
    /\ \E i \in DOMAIN stock_data : stock_data[i].v > 0

\* C10: remove_item(item, qty) on an item present with quantity c leaves c - qty
\* when qty < c; when qty >= c the item is gone and get_qty(item) is 0; every
\* other entry keeps its value either way.
C10_RemoveEffect ==
    (ValidRemove /\ DictHas(pre.stock, last.item.s)) =>
        LET item == last.item.s
            c == DictGet(pre.stock, item, 0)
            qty == last.qty.n
        IN /\ qty < c => /\ DictHas(stock_data, item)
                         /\ DictGet(stock_data, item, 0) = c - qty
           /\ qty >= c => /\ ~DictHas(stock_data, item)
                          /\ get_qty_value(item) = 0
           /\ \A k \in (DictKeys(pre.stock) \cup DictKeys(stock_data)) \ {item} :
                  /\ DictHas(stock_data, k) <=> DictHas(pre.stock, k)
                  /\ DictGet(stock_data, k, 0) = DictGet(pre.stock, k, 0)

\* a remove_item of exactly the stored quantity has deleted one of two entries
C10_Witness ==
    /\ ValidRemove
    /\ DictHas(pre.stock, last.item.s)
    /\ last.qty.n = DictGet(pre.stock, last.item.s, 0)
    /\ ~DictHas(stock_data, last.item.s)
    /\ Len(pre.stock) = 2
    /\ Len(stock_data) = 1

----------------------------------------------------------------------------
(* Properties of save_data and load_data, checked under Spec *)

\* the call that ran last was a load_data that did not die on a read error
LoadReturned ==
    /\ last.op = "load"
    /\ last.outcome = "return"

\* the file the last call found at the target path, parsed
PriorDoc == json_load(pre.target.data)

\* C2: at every step of save_data, and after a crash at any step, the target is
\* what it was before the call or the complete text of the dict; the temp file is
\* complete and closed when the rename is due, and only the rename changes the target.
C2_AtomicSave ==
    /\ [](/\ pc # "idle" => target = pre.target
          /\ pc = "save_closed" => (wbuf = <<>> /\ tmp = File(json_dump(stock_data)))
          /\ last.op \in {"save", "crash"} =>
                 target \in {pre.target, File(json_dump(pre.stock))})
    /\ [][target' # target =>
              /\ pc = "save_closed"
              /\ target' = File(json_dump(stock_data))]_vars

\* the process died while the temp file held part of the text, the target intact
C2_Witness ==
    /\ last.op = "crash"
    /\ last.outcome = "save_writing"
    /\ pre.stock # <<>>
    /\ tmp.exists
    /\ tmp.data # <<>>
    /\ tmp.data # json_dump(pre.stock)
    /\ target.exists
    /\ target = pre.target

C4_FailureSurfaced ==
    (last.op \in {"save", "load"} /\ last.log = "error") => last.outcome # "return"

\* the dict holds only positive quantities
AllPositive(d) == \A i \in DOMAIN d : d[i].v > 0

\* C5: a load_data into an empty ledger of the file a completed save_data wrote
\* from a dict of positive quantities gives back that dict, key for key.
C5_RoundTrip ==
    (LoadReturned /\ pre.stock = <<>> /\ saved.done /\ AllPositive(saved.stock)) =>
        /\ DictKeys(stock_data) = DictKeys(saved.stock)
        /\ \A k \in DictKeys(saved.stock) :
               DictGet(stock_data, k, 0) = DictGet(saved.stock, k, 0)

\* two entries, one of two digits, came back from the file into an empty ledger
C5_Witness ==
    /\ LoadReturned
    /\ pre.stock = <<>>
    /\ saved.done
    /\ AllPositive(saved.stock)
    /\ Len(saved.stock) = 2
    /\ \E i \in DOMAIN saved.stock : saved.stock[i].v >= 10
    /\ Len(stock_data) = 2

\* C6: after a save_data that failed at the open, a write, the close or the
\* rename, the target is exactly what it was before the call.
C6_FailedSaveKeepsTarget ==
    last = save_failed => target = pre.target

\* a save failed after its temp file was written; the target still holds an older document
C6_Witness ==
    /\ last = save_failed
    /\ tmp.exists
    /\ tmp.data # <<>>
    /\ target.exists
    /\ target.data # json_dump(pre.stock)
    /\ target = pre.target

\* C7: a load_data of a path where no file exists returns normally and leaves
\* stock_data as it was.
C7_LoadMissingNoChange ==
    (last.op = "load" /\ ~pre.target.exists) =>
        /\ last.outcome = "return"
        /\ last.log # "error"
        /\ stock_data = pre.stock

\* a ledger holding entries went through a load of a missing file
C7_Witness ==
    /\ last.op = "load"
    /\ ~pre.target.exists
    /\ pre.stock # <<>>
    /\ stock_data # <<>>

\* C8: after a load_data of a file that parses and passes validation the map is
\* the parsed document: the same keys, each with the file's value.
C8_LoadReplaces ==
    (LoadReturned /\ pre.target.exists /\ PriorDoc.ok /\ schema_ok(PriorDoc.val)) =>
        LET doc == PriorDoc.val.items IN
        /\ DictKeys(stock_data) = DictKeys(doc)
        /\ \A k \in DictKeys(doc) : DictGet(stock_data, k, 0) = DictGet(doc, k, PyNone).n

\* a load dropped a key the ledger held and the file did not
C8_Witness ==
    /\ LoadReturned
    /\ pre.target.exists
    /\ PriorDoc.ok
    /\ schema_ok(PriorDoc.val)
    /\ stock_data # <<>>
    /\ DictKeys(pre.stock) \ DictKeys(stock_data) # {}

\* C9 as stated: after a load_data that passed validation every key is a
\* non-blank string and every quantity is strictly positive.
C9_LoadKeepsInvariants ==
    (LoadReturned /\ pre.target.exists /\ last.log = "none") =>
        \A i \in DOMAIN stock_data :
            /\ strip(stock_data[i].k) # ""
            /\ stock_data[i].v > 0

----------------------------------------------------------------------------
(* Further properties of the ledger operations, checked under SpecLedger *)

\* the argument is a string that is not blank
ValidItem(x) == x.ty = "str" /\ strip(x.s) # ""

\* the last call was a remove_item with valid arguments on an item not in the map
RemoveOfAbsent ==
    /\ last.op = "remove"
    /\ ValidItem(last.item)
    /\ last.qty.ty = "int"
    /\ last.qty.n > 0
    /\ ~DictHas(pre.stock, last.item.s)

\* C11: remove_item with valid arguments on an item absent from the map does not
\* raise and leaves the map exactly as it was.
C11_RemoveAbsentNoOp ==
    RemoveOfAbsent =>
        /\ last.outcome = "return"
        /\ stock_data = pre.stock

\* an absent item was removed from a ledger that holds another item
C11_Witness ==
    /\ RemoveOfAbsent
    /\ pre.stock # <<>>
    /\ stock_data # <<>>

\* the last call was add_item(item, 0) on an item not in the map
AddZeroOfAbsent ==
    /\ last.op = "add"
    /\ ValidItem(last.item)
    /\ last.qty = PyInt(0)
    /\ ~DictHas(pre.stock, last.item.s)

\* C12: add_item(item, 0) on an absent item makes item a key with quantity 0,
\* and get_qty(item) right after returns 0 with the item present.
C12_AddZeroCreates ==
    AddZeroOfAbsent =>
        /\ last.outcome = "return"
        /\ DictHas(stock_data, last.item.s)
        /\ DictGet(stock_data, last.item.s, -1) = 0
        /\ get_qty_value(last.item.s) = 0

\* add_item(item, 0) has created a second key beside one already stored
C12_Witness ==
    /\ AddZeroOfAbsent
    /\ pre.stock # <<>>
    /\ Len(stock_data) = Len(pre.stock) + 1

\* the last call was an add_item or remove_item with an invalid argument
InvalidCall ==
    /\ last.op \in {"add", "remove"}
    /\ \/ ~ValidItem(last.item)
       \/ last.qty.ty # "int"
       \/ last.op = "add" /\ last.qty.n < 0
       \/ last.op = "remove" /\ last.qty.n <= 0

\* C13: an add_item or remove_item with invalid input raises to the caller and
\* leaves the map unchanged; a failed add_item appends nothing to the log list.
C13_InvalidRejected ==
    InvalidCall =>
        /\ last.outcome \in {"ValueError", "TypeError"}
        /\ stock_data = pre.stock
        /\ last.op = "add" => logs = pre.logs

\* an add_item was rejected while the map and the log list held something
C13_Witness ==
    /\ InvalidCall
    /\ last.op = "add"
    /\ stock_data # <<>>
    /\ logs # <<>>

\* the integer is outside what the operation accepts
OutOfRange(op, qty) ==
    /\ qty.ty = "int"
    /\ IF op = "add" THEN qty.n < 0 ELSE qty.n <= 0

\* C14 as stated: in add_item and in remove_item alike, a quantity of the wrong
\* type is rejected with another error kind than an out-of-range integer: two
\* calls of the same operation in a row, the first with an out-of-range integer
\* and the second with a non-integer, raise different exceptions.
C14_DistinctErrorKinds ==
    [][(/\ last.op \in {"add", "remove"}
        /\ last'.op = last.op
        /\ ValidItem(last.item)
        /\ ValidItem(last'.item)
        /\ OutOfRange(last.op, last.qty)
        /\ last'.qty.ty # "int")
       => /\ last.outcome # "return"
          /\ last'.outcome # "return"
          /\ last'.outcome # last.outcome]_vars

\* position of key k in the map's iteration order
Pos(d, k) == CHOOSE i \in DOMAIN d : d[i].k = k

\* the last call was a check_low_items with a valid threshold
LowReturned ==
    /\ last.op = "low"
    /\ last.outcome = "return"

\* C15: check_low_items(threshold) returns exactly the keys whose quantity is
\* below threshold, each once, in the map's insertion order; threshold 0 gives
\* the empty list when no stored quantity is negative.
C15_LowItems ==
    LowReturned =>
        LET r == last.names
            t == last.qty.n
        IN /\ \A k \in DictKeys(stock_data) \cup {r[i] : i \in DOMAIN r} :
                  (\E i \in DOMAIN r : r[i] = k)
                      <=> (DictHas(stock_data, k) /\ DictGet(stock_data, k, 0) < t)
           /\ \A i, j \in DOMAIN r : i < j =>
                  /\ r[i] # r[j]
                  /\ Pos(stock_data, r[i]) < Pos(stock_data, r[j])
           /\ (t = 0 /\ \A i \in DOMAIN stock_data : stock_data[i].v >= 0) => r = <<>>

\* both items were low and came back in insertion order, "b" before "a"
C15_Witness ==
    /\ LowReturned
    /\ last.names = <<"b", "a">>
    /\ stock_data[1].k = "b"
    /\ stock_data[1].v < stock_data[2].v

----------------------------------------------------------------------------
(* Further properties of save_data and load_data, checked under Spec *)

\* the last call was a save_data that went through without an OSError
SaveCompleted ==
    /\ last.op = "save"
    /\ last.outcome = "return"
    /\ last.log = "none"

\* C18: after a save_data that completes without an I/O failure the target holds
\* the complete text of the map as it was at the call, and the ".tmp" file is
\* gone, whatever an earlier failed or crashed save had left there.
C18_SaveCompletes ==
    SaveCompleted =>
        /\ target = File(json_dump(pre.stock))
        /\ ~tmp.exists

\* a save went through although a cut-short temp file was lying there before it
C18_Witness ==
    /\ SaveCompleted
    /\ pre.stock # <<>>
    /\ pre.tmp.exists
    /\ pre.tmp.data # <<>>
    /\ pre.tmp.data # json_dump(pre.stock)
    /\ At(pre.tmp.data, Len(pre.tmp.data)) # P("}")
    /\ ~tmp.exists

\* C19: a load_data whose open or read of an existing file raises an I/O error
\* lets the error reach the caller and leaves stock_data as it was.
C19_ReadErrorKeepsMap ==
    (last.op = "load" /\ last.outcome # "return") =>
        /\ last.outcome = "OSError"
        /\ pre.target.exists
        /\ stock_data = pre.stock

\* a ledger holding entries kept them through a load that died on a read error
C19_Witness ==
    /\ last.op = "load"
    /\ last.outcome = "OSError"
    /\ pre.stock # <<>>
    /\ stock_data # <<>>
    /\ target.exists

----------------------------------------------------------------------------
(* Properties across all the operations, checked under SpecFull *)

C17_NoImplicitIO ==
    /\ last.op \in {"add", "remove", "get", "low", "load"} =>
           /\ target = pre.target
           /\ tmp = pre.tmp
    /\ last.op \in {"save", "get", "low"} => stock_data = pre.stock

\* an add_item changed the map while both files lay on disk with other contents
C17_Witness ==
    /\ last.op = "add"
    /\ last.outcome = "return"
    /\ stock_data # pre.stock
    /\ target.exists
    /\ tmp.exists
    /\ target.data # json_dump(stock_data)

\* the keys stored with quantity 0
ZeroKeys(d) == {d[i].k : i \in {j \in DOMAIN d : d[j].v = 0}}

====
